---- MODULE Spec2Model ----
(***************************************************************************)
(* Model of fetch_stock_metrics_with_valuation.py: the batch loop of       *)
(* main(), the per-code pipeline of get_stock_data() (listed info, price   *)
(* with its date-range retry, paginated statements fetch, 3-year window,   *)
(* statement selection, PER / forecast PER / PBR) and the pure helpers.    *)
(*                                                                         *)
(* Conventions.                                                            *)
(*  - Dates are day numbers; the API's ISO strings compare                 *)
(*    lexicographically in the code, which for well-formed dates is the    *)
(*    order of the day numbers.  0 stands for the empty string '' (smaller *)
(*    than every date).                                                    *)
(*  - A raw statement field is a string of the API: blank (or absent),     *)
(*    a numeric string, or a non-numeric string such as "-".               *)
(*  - Floats are exact integers / reduced fractions; a ratio rounded by    *)
(*    round(x, 2) is an integer number of hundredths.                      *)
(*  - An optional value (Python None) is a record [ok, val].               *)
(***************************************************************************)
EXTENDS Integers, Sequences, FiniteSets, TLC

\* ------------------------------------------------------------------ bounds
NumCodes == 2
MaxPages == 2
MaxStmts == 2

\* --------------------------------------------------------------- constants
Today == 20000
WindowDays == 3 * 365
BandLowDen == 20
BandHigh == 20
ThousandUnit == 1000
AnnualizeFactor == 4

\* ------------------------------------------------------------ value shapes
None == [ok |-> FALSE, val |-> 0]
Some(v) == [ok |-> TRUE, val |-> v]

Blank == [tag |-> "blank", val |-> 0]
Text == [tag |-> "text", val |-> 0]
Num(n) == [tag |-> "num", val |-> n]

\* Python truthiness of an optional float: not None and not 0.0
Truthy(x) == x.ok /\ x.val # 0

\* str(float) of a value the code then parses again with float()
StrOfFloat(v) == Num(v)

BlankStmt ==
  [CurrentPeriodEndDate |-> 0,
   DisclosedDate |-> 0,
   TypeOfCurrentPeriod |-> "",
   EarningsPerShare |-> Blank,
   NonConsolidatedEarningsPerShare |-> Blank,
   ForecastEarningsPerShare |-> Blank,
   ForecastNonConsolidatedEarningsPerShare |-> Blank,
   BookValuePerShare |-> Blank,
   NonConsolidatedBookValuePerShare |-> Blank,
   Equity |-> Blank,
   NonConsolidatedEquity |-> Blank,
   NumberOfIssuedAndOutstandingSharesAtTheEndOfFiscalYearIncludingTreasuryStock |-> Blank,
   AverageNumberOfShares |-> Blank,
   NumberOfTreasuryStockAtTheEndOfFiscalYear |-> Blank,
   FallbackEarningsPerShare |-> Blank,
   FallbackEPSPeriod |-> 0,
   AnnualizedEarningsPerShare |-> Blank]

\* -------------------------------------------------------------- arithmetic
RECURSIVE GCD(_, _)
GCD(a, b) == IF b = 0 THEN a ELSE GCD(b, a % b)

Abs(a) == IF a < 0 THEN 0 - a ELSE a

\* the fraction n / d (d # 0), reduced, with a positive denominator
Frac(n, d) ==
  LET g == GCD(Abs(n), Abs(d))
      s == IF d < 0 THEN 0 - 1 ELSE 1
  IN [n |-> (s * n) \div g, d |-> (s * d) \div g]

FracPos(x) == x.n > 0
FracDiv(x, y) == Frac(x.n * y.d, x.d * y.n)
FracMulInt(x, k) == Frac(x.n * k, x.d)
FracOfInt(k) == [n |-> k, d |-> 1]

\* round(x, 2) of a non-negative fraction, in hundredths (ties to even)
Round2(x) ==
  LET n == 100 * x.n
      q == n \div x.d
      r == n % x.d
  IN IF 2 * r > x.d THEN q + 1
     ELSE IF 2 * r < x.d THEN q
     ELSE IF q % 2 = 0 THEN q ELSE q + 1

\* variant: only the lower end of the band is tested
InPlausibleBand_NoUpper(x) == x.d <= BandLowDen * x.n

\* 0.05 <= x <= 20.0
InPlausibleBand(x) == x.d <= BandLowDen * x.n /\ x.n <= BandHigh * x.d

\* ------------------------------------------------- get_valid_float_value
RECURSIVE get_valid_float_value(_)
get_valid_float_value(values) ==
  IF values = <<>> THEN None
  ELSE IF Head(values).tag = "num" THEN Some(Head(values).val)
  ELSE get_valid_float_value(Tail(values))

\* ------------------------------------------------------------- sort order
\* variant: the disclosure date left out of the sort key
SortKey_PeriodOnly(s) == <<s.CurrentPeriodEndDate, 0>>

SortKey(s) == <<s.CurrentPeriodEndDate, s.DisclosedDate>>

KeyLess(a, b) == a[1] < b[1] \/ (a[1] = b[1] /\ a[2] < b[2])

RECURSIVE InsertDesc(_, _)
InsertDesc(sorted, x) ==
  IF sorted = <<>> THEN <<x>>
  ELSE IF KeyLess(SortKey(Head(sorted)), SortKey(x)) THEN <<x>> \o sorted
  ELSE <<Head(sorted)>> \o InsertDesc(Tail(sorted), x)

\* sorted(..., key=(period end, disclosed), reverse=True): stable
RECURSIVE SortDesc(_)
SortDesc(seq) ==
  IF seq = <<>> THEN <<>>
  ELSE InsertDesc(SortDesc(SubSeq(seq, 1, Len(seq) - 1)), seq[Len(seq)])

\* ------------------------------------------- select_best_financial_data
NotFuture(s) == s.CurrentPeriodEndDate # 0 /\ s.CurrentPeriodEndDate <= Today

IsFY(s) == s.TypeOfCurrentPeriod = "FY"

IsQuarterly(s) == s.TypeOfCurrentPeriod \in {"1Q", "2Q", "3Q", "4Q"}

ActualEPS(s) ==
  get_valid_float_value(<<s.EarningsPerShare, s.NonConsolidatedEarningsPerShare>>)

HasActualEPS(s) == Truthy(ActualEPS(s))

\* variant: the first scan looks at the newest annual statement only
FYScanRange_NewestOnly(fy_sorted) == SubSeq(fy_sorted, 1, 1)

\* the statements of the first scan of the annual list (for stmt in fy_sorted)
FYScanRange(fy_sorted) == fy_sorted

RECURSIVE FirstWithEPS(_)
FirstWithEPS(sorted) ==
  IF sorted = <<>> THEN <<>>
  ELSE IF HasActualEPS(Head(sorted)) THEN <<Head(sorted)>>
  ELSE FirstWithEPS(Tail(sorted))

\* the newest annual statement, with the EPS of an older one attached
WithFallback(fy_sorted) ==
  LET selected == fy_sorted[1]
      prev == FirstWithEPS(Tail(fy_sorted))
  IN IF Len(fy_sorted) > 1 /\ prev # <<>>
     THEN [selected EXCEPT
             !.FallbackEarningsPerShare = StrOfFloat(ActualEPS(prev[1]).val),
             !.FallbackEPSPeriod = prev[1].CurrentPeriodEndDate]
     ELSE selected

\* a quarterly statement with EPS; 1Q-3Q get the annualized EPS attached
Annualized(s) ==
  IF s.TypeOfCurrentPeriod \in {"1Q", "2Q", "3Q"}
  THEN [s EXCEPT !.AnnualizedEarningsPerShare =
                    StrOfFloat(ActualEPS(s).val * AnnualizeFactor)]
  ELSE s

select_best_financial_data(stmts) ==
  LET valid_statements == SelectSeq(stmts, NotFuture)
      fy_sorted == SortDesc(SelectSeq(valid_statements, IsFY))
      q_sorted == SortDesc(SelectSeq(valid_statements, IsQuarterly))
      fy_hit == FirstWithEPS(FYScanRange(fy_sorted))
      q_hit == FirstWithEPS(q_sorted)
  IN IF stmts = <<>> THEN <<>>
     ELSE IF valid_statements = <<>> THEN <<>>
     ELSE IF fy_sorted # <<>>
          THEN IF fy_hit # <<>> THEN fy_hit ELSE <<WithFallback(fy_sorted)>>
     ELSE IF q_sorted # <<>>
          THEN IF q_hit # <<>> THEN <<Annualized(q_hit[1])>> ELSE <<q_sorted[1]>>
     ELSE <<>>

\* -------------------------------------- get_comprehensive_financial_data
InWindow(s) == s.CurrentPeriodEndDate >= Today - WindowDays

FilterWindow(all) == SelectSeq(all, InWindow)

\* ------------------------------------ search_forecast_eps_in_statements
NotAfterToday(s) == s.CurrentPeriodEndDate <= Today

ForecastEPS(s) ==
  get_valid_float_value(<<s.ForecastEarningsPerShare,
                          s.ForecastNonConsolidatedEarningsPerShare>>)

HasForecastEPS(s) == Truthy(ForecastEPS(s)) /\ ForecastEPS(s).val > 0

\* variant: the scan does not drop the future-dated statements
ForecastScanRange_Unfiltered(stmts) == stmts

ForecastScanRange(stmts) == SelectSeq(stmts, NotAfterToday)

RECURSIVE FirstWithForecast(_)
FirstWithForecast(sorted) ==
  IF sorted = <<>> THEN <<>>
  ELSE IF HasForecastEPS(Head(sorted)) THEN <<Head(sorted)>>
  ELSE FirstWithForecast(Tail(sorted))

\* the statement the forecast EPS is taken from (<<>>: not found)
search_forecast_eps_in_statements(stmts) ==
  IF stmts = <<>> THEN <<>>
  ELSE FirstWithForecast(SortDesc(ForecastScanRange(stmts)))

\* ------------------------------------------------ get_stock_data: ratios
\* the EPS the trailing PER is computed from (own, else fallback, else annualized)
TrailingEPS(s) ==
  LET eps0 == ActualEPS(s)
      fallback_eps == get_valid_float_value(<<s.FallbackEarningsPerShare>>)
      eps1 == IF ~Truthy(eps0) /\ Truthy(fallback_eps) /\ fallback_eps.val > 0
              THEN fallback_eps ELSE eps0
      annualized_eps == get_valid_float_value(<<s.AnnualizedEarningsPerShare>>)
  IN IF ~Truthy(eps1) /\ Truthy(annualized_eps) /\ annualized_eps.val > 0
     THEN annualized_eps ELSE eps1

\* variant: if eps: (the sign is not tested)
EPSGuard_NonZero(eps) == Truthy(eps)

EPSGuard(eps) == Truthy(eps) /\ eps.val > 0

TrailingPER(price, s) ==
  LET eps == TrailingEPS(s)
  IN IF EPSGuard(eps) THEN Some(Round2(Frac(price, eps.val))) ELSE None

\* the statement whose forecast EPS gives the forecast PER (<<>>: none)
ForecastSource(s, stmts) ==
  IF HasForecastEPS(s) THEN <<s>> ELSE search_forecast_eps_in_statements(stmts)

ForecastPER(price, s, stmts) ==
  LET src == ForecastSource(s, stmts)
  IN IF src # <<>> THEN Some(Round2(Frac(price, ForecastEPS(src[1]).val)))
     ELSE None

DirectBPS(s) ==
  get_valid_float_value(<<s.BookValuePerShare, s.NonConsolidatedBookValuePerShare>>)

EquityOf(s) == get_valid_float_value(<<s.Equity, s.NonConsolidatedEquity>>)

SharesOf(s) ==
  get_valid_float_value(
    <<s.NumberOfIssuedAndOutstandingSharesAtTheEndOfFiscalYearIncludingTreasuryStock,
      s.AverageNumberOfShares>>)

TreasuryOf(s) ==
  LET t == get_valid_float_value(<<s.NumberOfTreasuryStockAtTheEndOfFiscalYear>>)
  IN IF Truthy(t) THEN t.val ELSE 0

EffectiveShares(s) == SharesOf(s).val - TreasuryOf(s)

\* price / bps if bps > 0 else inf, tested against the band
ImpliedPBRInBand(price, bps) ==
  FracPos(bps) /\ InPlausibleBand(FracDiv(FracOfInt(price), bps))

\* calculated_bps: the thousands hypothesis first, then the same-unit one
CalculatedBPS(price, calculated_bps_raw) ==
  LET bps_from_thousand == FracMulInt(calculated_bps_raw, ThousandUnit)
      bps_direct == calculated_bps_raw
  IN IF ImpliedPBRInBand(price, bps_from_thousand) THEN Some(bps_from_thousand)
     ELSE IF ImpliedPBRInBand(price, bps_direct) THEN Some(bps_direct)
     ELSE None

ManualPBR(price, s) ==
  IF Truthy(EquityOf(s)) /\ Truthy(SharesOf(s)) /\ EffectiveShares(s) > 0
  THEN LET calculated_bps ==
             CalculatedBPS(price, Frac(EquityOf(s).val, EffectiveShares(s)))
       IN IF calculated_bps.ok /\ FracPos(calculated_bps.val)
          THEN Some(Round2(FracDiv(FracOfInt(price), calculated_bps.val)))
          ELSE None
  ELSE None

PBR(price, s) ==
  LET bps == DirectBPS(s)
  IN IF Truthy(bps) /\ bps.val > 0 THEN Some(Round2(Frac(price, bps.val)))
     ELSE ManualPBR(price, s)

\* =================================================================== state
VARIABLES
  pc,             \* position of the single thread
  i,              \* 1-based index of the code being processed (enumerate(codes))
  results,        \* main(): results
  result,         \* get_stock_data(): result
  latest_price,   \* get_stock_data(): latest_price (0: None)
  pagination_key, \* get_comprehensive_financial_data(): pagination_key (0: None / '')
  all_statements, \* get_comprehensive_financial_data(): all_statements
  statements,     \* get_stock_data(): statements (the window-filtered list)
  stmt,           \* get_stock_data(): stmt (<<>>: None)
  res,            \* the statements response being handled
  priceLog,       \* history: outcomes of the price requests of this code
  requests,       \* history: pagination_key parameter of each statements request of this code
  responses,      \* history: statements responses received for this code
  used            \* history: statements whose figures fed a ratio of this code

vars == <<pc, i, results, result, latest_price, pagination_key, all_statements,
          statements, stmt, res, priceLog, requests, responses, used>>

\* quants-codes.txt
Codes == [k \in 1..NumCodes |-> 7202 + k]

EmptyResult(code) ==
  [Code |-> code, CompanyName |-> "", LatestPrice |-> 0, LatestPriceDate |-> 0,
   AnalysisDate |-> 0, PER |-> None, ForecastPER |-> None, PBR |-> None]

NoResponse == [raised |-> FALSE, status_code |-> 0, statements |-> <<>>, pagination_key |-> 0]

\* ------------------------------------------------------------ API replies
ClosePrices == {0, 2500}

\* daily_quotes lists of the price API (Close 0: null), oldest first
QuoteLists ==
  {<<>>} \cup {<<[Close |-> c, Date |-> Today - 1]>> : c \in ClosePrices}
         \cup {<<[Close |-> c, Date |-> Today - 2], [Close |-> d, Date |-> Today - 1]>> :
                 c \in ClosePrices, d \in ClosePrices}

PriceReplies ==
  {[raised |-> TRUE, status_code |-> 0, daily_quotes |-> <<>>],
   [raised |-> FALSE, status_code |-> 500, daily_quotes |-> <<>>]}
  \cup {[raised |-> FALSE, status_code |-> 200, daily_quotes |-> q] : q \in QuoteLists}

PageFY ==
  [BlankStmt EXCEPT !.CurrentPeriodEndDate = Today - 200, !.DisclosedDate = Today - 150,
                    !.TypeOfCurrentPeriod = "FY", !.EarningsPerShare = Num(100),
                    !.BookValuePerShare = Num(500)]

PageQ ==
  [BlankStmt EXCEPT !.CurrentPeriodEndDate = Today - 20, !.DisclosedDate = Today - 5,
                    !.TypeOfCurrentPeriod = "2Q", !.EarningsPerShare = Num(40),
                    !.ForecastEarningsPerShare = Num(50)]

PageLists == {<<>>, <<PageFY>>, <<PageQ>>}

\* the API ends the pagination at the latest with page MaxPages
Cursors(page) == IF page < MaxPages THEN {0, 1, 2} ELSE {0}

StatementReplies(page) ==
  {[raised |-> TRUE, status_code |-> 0, statements |-> <<>>, pagination_key |-> 0],
   [raised |-> FALSE, status_code |-> 500, statements |-> <<>>, pagination_key |-> 0]}
  \cup {[raised |-> FALSE, status_code |-> 200, statements |-> l, pagination_key |-> k] :
          l \in PageLists, k \in Cursors(page)}

\* ---------------------------------------------------------------- helpers
\* entering get_stock_data(codes[k]) from the loop of main()
StartCode(k) ==
  /\ i' = k
  /\ result' = EmptyResult(Codes[k])
  /\ latest_price' = 0
  /\ pagination_key' = 0
  /\ all_statements' = <<>>
  /\ statements' = <<>>
  /\ stmt' = <<>>
  /\ res' = NoResponse
  /\ priceLog' = <<>>
  /\ requests' = <<>>
  /\ responses' = <<>>
  /\ used' = {}

\* latest = data['daily_quotes'][-1] and the three assignments that follow
ApplyQuotes(r, quotes) ==
  IF quotes = <<>> THEN r
  ELSE [r EXCEPT !.LatestPrice = quotes[Len(quotes)].Close,
                 !.LatestPriceDate = quotes[Len(quotes)].Date,
                 !.AnalysisDate = Today]

LatestClose(quotes) == IF quotes = <<>> THEN 0 ELSE quotes[Len(quotes)].Close

\* variant: the date-range retry also follows a raised exception
RetriesWithRange_AlsoOnException(reply) == reply.raised \/ reply.status_code # 200

\* where the first price reply leads: the date-range retry or the statements step
RetriesWithRange(reply) == ~reply.raised /\ reply.status_code # 200

\* if latest_price: fetch the statements, else return the result
AfterPrice(price) == IF price # 0 THEN "stmt_req" ELSE "return"

\* variant: the pagination key is never put into the params
RequestKey_Omitted(key) == 0

\* params of a statements request: pagination_key only when truthy
RequestKey(key) == IF key # 0 THEN key ELSE 0

\* variant: the pagination loop is not inside a try block
FetchExceptionPropagates_Raise == TRUE

\* except Exception in get_comprehensive_financial_data: return []
FetchExceptionPropagates == FALSE

\* ================================================================= actions
\* main(): authenticate(), read the codes, enter the loop
Authenticate ==
  /\ pc = "auth"
  /\ \E ok \in BOOLEAN :
       IF ok /\ NumCodes > 0
       THEN /\ pc' = "info"
            /\ StartCode(1)
            /\ UNCHANGED results
       ELSE /\ pc' = IF ok THEN "finished" ELSE "auth_failed"
            /\ UNCHANGED <<i, results, result, latest_price, pagination_key,
                           all_statements, statements, stmt, res, priceLog,
                           requests, responses, used>>

\* get_stock_data(): GET /listed/info
GetListedInfo ==
  /\ pc = "info"
  /\ \E reply \in {"name", "empty", "status", "raised"} :
       result' = IF reply = "name" THEN [result EXCEPT !.CompanyName = "name"]
                 ELSE result
  /\ pc' = "price"
  /\ UNCHANGED <<i, results, latest_price, pagination_key, all_statements,
                 statements, stmt, res, priceLog, requests, responses, used>>

\* get_stock_data(): GET /prices/daily_quotes without a date range
GetDailyQuotes ==
  /\ pc = "price"
  /\ \E reply \in PriceReplies :
       /\ priceLog' = Append(priceLog, reply)
       /\ result' = ApplyQuotes(result, reply.daily_quotes)
       /\ latest_price' = LatestClose(reply.daily_quotes)
       /\ pc' = IF RetriesWithRange(reply) THEN "price_retry"
                ELSE AfterPrice(latest_price')
  /\ UNCHANGED <<i, results, pagination_key, all_statements, statements, stmt,
                 res, requests, responses, used>>

\* get_stock_data(): GET /prices/daily_quotes with the 90-day range
GetDailyQuotesRange ==
  /\ pc = "price_retry"
  /\ \E reply \in PriceReplies :
       /\ priceLog' = Append(priceLog, reply)
       /\ result' = ApplyQuotes(result, reply.daily_quotes)
       /\ latest_price' = LatestClose(reply.daily_quotes)
       /\ pc' = AfterPrice(latest_price')
  /\ UNCHANGED <<i, results, pagination_key, all_statements, statements, stmt,
                 res, requests, responses, used>>

\* get_comprehensive_financial_data(): GET /fins/statements, the reply arrives
RequestStatements ==
  /\ pc = "stmt_req"
  /\ requests' = Append(requests, RequestKey(pagination_key))
  /\ \E reply \in StatementReplies(Len(requests) + 1) : res' = reply
  /\ pc' = "stmt_resp"
  /\ UNCHANGED <<i, results, result, latest_price, pagination_key, all_statements,
                 statements, stmt, priceLog, responses, used>>

\* get_comprehensive_financial_data(): one pass of the loop body on the reply
ReceiveStatements ==
  /\ pc = "stmt_resp"
  /\ responses' = Append(responses, res)
  /\ IF res.raised
     THEN /\ pc' = IF FetchExceptionPropagates THEN "aborted" ELSE "return"
          /\ UNCHANGED <<all_statements, pagination_key>>
     ELSE IF res.status_code # 200 \/ res.statements = <<>>
     THEN /\ pc' = "filter"
          /\ UNCHANGED <<all_statements, pagination_key>>
     ELSE /\ all_statements' = all_statements \o res.statements
          /\ pagination_key' = res.pagination_key
          /\ pc' = IF res.pagination_key = 0 THEN "filter" ELSE "stmt_req"
  /\ UNCHANGED <<i, results, result, latest_price, statements, stmt, res,
                 priceLog, requests, used>>

\* get_comprehensive_financial_data(): the 3-year filter and the return;
\* get_stock_data(): if statements
ApplyWindow ==
  /\ pc = "filter"
  /\ statements' = FilterWindow(all_statements)
  /\ pc' = IF statements' # <<>> THEN "select" ELSE "return"
  /\ UNCHANGED <<i, results, result, latest_price, pagination_key, all_statements,
                 stmt, res, priceLog, requests, responses, used>>

\* get_stock_data(): stmt = select_best_financial_data(statements)
SelectStatement ==
  /\ pc = "select"
  /\ stmt' = select_best_financial_data(statements)
  /\ pc' = IF stmt' = <<>> THEN "return" ELSE "ratios"
  /\ UNCHANGED <<i, results, result, latest_price, pagination_key, all_statements,
                 statements, res, priceLog, requests, responses, used>>

\* get_stock_data(): trailing PER, forecast PER and PBR of the selected statement
ComputeRatios ==
  /\ pc = "ratios"
  /\ result' = [result EXCEPT
                  !.PER = TrailingPER(latest_price, stmt[1]),
                  !.ForecastPER = ForecastPER(latest_price, stmt[1], statements),
                  !.PBR = PBR(latest_price, stmt[1])]
  /\ used' = {stmt[1]} \cup
             {ForecastSource(stmt[1], statements)[k] :
                k \in DOMAIN ForecastSource(stmt[1], statements)}
  /\ pc' = "return"
  /\ UNCHANGED <<i, results, latest_price, pagination_key, all_statements,
                 statements, stmt, res, priceLog, requests, responses>>

\* main(): results.append(result), then the next code or the report
ReturnResult ==
  /\ pc = "return"
  /\ results' = Append(results, result)
  /\ IF i < NumCodes
     THEN /\ pc' = "info"
          /\ StartCode(i + 1)
     ELSE /\ pc' = "finished"
          /\ UNCHANGED <<i, result, latest_price, pagination_key, all_statements,
                         statements, stmt, res, priceLog, requests, responses, used>>

\* ========================================================== specifications
Init ==
  /\ pc = "auth"
  /\ i = 0
  /\ results = <<>>
  /\ result = EmptyResult(0)
  /\ latest_price = 0
  /\ pagination_key = 0
  /\ all_statements = <<>>
  /\ statements = <<>>
  /\ stmt = <<>>
  /\ res = NoResponse
  /\ priceLog = <<>>
  /\ requests = <<>>
  /\ responses = <<>>
  /\ used = {}

Next ==
  \/ Authenticate
  \/ GetListedInfo
  \/ GetDailyQuotes
  \/ GetDailyQuotesRange
  \/ RequestStatements
  \/ ReceiveStatements
  \/ ApplyWindow
  \/ SelectStatement
  \/ ComputeRatios
  \/ ReturnResult

Spec == Init /\ [][Next]_vars

\* --------------------------------------------- the computation on its own
\* The state after the pagination loop has ended with one page `all` and a
\* price `price`, for the last code of the list; the earlier codes had no price.
ListsUpTo(S, n) == UNION {[1..k -> S] : k \in 0..n}

InitAfterFetch(all, price) ==
  /\ pc = "filter"
  /\ i = NumCodes
  /\ results = [k \in 1..(NumCodes - 1) |-> EmptyResult(Codes[k])]
  /\ result = [EmptyResult(Codes[NumCodes]) EXCEPT
                 !.LatestPrice = price, !.LatestPriceDate = Today - 1,
                 !.AnalysisDate = Today]
  /\ latest_price = price
  /\ pagination_key = 0
  /\ all_statements = all
  /\ statements = <<>>
  /\ stmt = <<>>
  /\ res = [raised |-> FALSE, status_code |-> 200, statements |-> all,
            pagination_key |-> 0]
  /\ priceLog = <<[raised |-> FALSE, status_code |-> 200,
                   daily_quotes |-> <<[Close |-> price, Date |-> Today - 1]>>]>>
  /\ requests = <<0>>
  /\ responses = <<res>>
  /\ used = {}

NextAfterFetch ==
  \/ ApplyWindow
  \/ SelectStatement
  \/ ComputeRatios
  \/ ReturnResult

\* selection: period ends, disclosure dates, period types and trailing EPS vary
SelectStmts ==
  {[BlankStmt EXCEPT !.CurrentPeriodEndDate = pe, !.DisclosedDate = dd,
                     !.TypeOfCurrentPeriod = tp, !.EarningsPerShare = e,
                     !.NonConsolidatedEarningsPerShare = nc] :
     pe \in {Today - 400, Today - 35}, dd \in {Today - 30, Today - 10},
     tp \in {"FY", "2Q", "4Q"}, e \in {Blank, Num(0), Num(40)},
     nc \in {Text, Num(25)}}

SelectInit == \E all \in ListsUpTo(SelectStmts, MaxStmts) : InitAfterFetch(all, 2500)

SelectSpec == SelectInit /\ [][NextAfterFetch]_vars

\* window: period ends around both ends of the window, and forecast EPS, vary
WindowStmts ==
  {[BlankStmt EXCEPT !.CurrentPeriodEndDate = pe, !.DisclosedDate = Today - 1,
                     !.TypeOfCurrentPeriod = tp, !.EarningsPerShare = e,
                     !.ForecastEarningsPerShare = fe] :
     pe \in {0, Today - WindowDays - 1, Today - WindowDays, Today, Today + 1},
     tp \in {"FY", "2Q"}, e \in {Blank, Num(40)}, fe \in {Blank, Num(50)}}

WindowInit == \E all \in ListsUpTo(WindowStmts, MaxStmts) : InitAfterFetch(all, 2500)

WindowSpec == WindowInit /\ [][NextAfterFetch]_vars

\* valuation: one recent statement whose figures vary, optionally an older
\* annual statement with a forecast EPS, and the price
ValuationStmts ==
  {[BlankStmt EXCEPT !.CurrentPeriodEndDate = Today - 35, !.DisclosedDate = Today - 10,
                     !.TypeOfCurrentPeriod = tp, !.EarningsPerShare = e,
                     !.ForecastEarningsPerShare = fe, !.BookValuePerShare = b,
                     !.Equity = eq,
                     !.NumberOfIssuedAndOutstandingSharesAtTheEndOfFiscalYearIncludingTreasuryStock = sh,
                     !.NumberOfTreasuryStockAtTheEndOfFiscalYear = tr] :
     tp \in {"FY", "2Q"}, e \in {Blank, Num(0), Num(0 - 5), Num(150)},
     fe \in {Blank, Num(0 - 3), Num(50)}, b \in {Blank, Num(0), Num(0 - 7), Num(1200)},
     eq \in {Blank, Num(0 - 1000), Num(1000), Num(1000000)},
     sh \in {Blank, Num(100), Num(10000), Num(100000)},
     tr \in {Blank, Num(100)}}

OlderStmts ==
  {[BlankStmt EXCEPT !.CurrentPeriodEndDate = Today - 400, !.DisclosedDate = Today - 350,
                     !.TypeOfCurrentPeriod = "FY",
                     !.ForecastNonConsolidatedEarningsPerShare = fe] :
     fe \in {Num(0 - 3), Num(80)}}

ValuationInit ==
  \E s \in ValuationStmts, price \in {100, 2500} :
    \E all \in {<<s>>} \cup {<<o, s>> : o \in OlderStmts} : InitAfterFetch(all, price)

ValuationSpec == ValuationInit /\ [][NextAfterFetch]_vars

\* get_comprehensive_financial_data on its own: the state when the price step
\* of the last code has set a price, and the steps of the fetch up to its return
FetchInit ==
  \E price \in {100, 2500} :
    /\ pc = "stmt_req"
    /\ i = NumCodes
    /\ results = [k \in 1..(NumCodes - 1) |-> EmptyResult(Codes[k])]
    /\ result = [EmptyResult(Codes[NumCodes]) EXCEPT
                   !.LatestPrice = price, !.LatestPriceDate = Today - 1,
                   !.AnalysisDate = Today]
    /\ latest_price = price
    /\ pagination_key = 0
    /\ all_statements = <<>>
    /\ statements = <<>>
    /\ stmt = <<>>
    /\ res = NoResponse
    /\ priceLog = <<[raised |-> FALSE, status_code |-> 200,
                     daily_quotes |-> <<[Close |-> price, Date |-> Today - 1]>>]>>
    /\ requests = <<>>
    /\ responses = <<>>
    /\ used = {}

NextFetch ==
  \/ RequestStatements
  \/ ReceiveStatements
  \/ ApplyWindow

\* the single thread always takes its next step: every network call returns or raises
FetchSpec == FetchInit /\ [][NextFetch]_vars /\ WF_vars(NextFetch)

\* ================================================================== claims
Returned == pc \in {"return", "finished"}

Selected == pc \in {"ratios", "return", "finished"} /\ stmt # <<>>

\* the statement's trailing EPS (consolidated, else non-consolidated) as a number
UsableEPS(s) ==
  LET v == IF s.EarningsPerShare.tag = "num" THEN s.EarningsPerShare
           ELSE s.NonConsolidatedEarningsPerShare
  IN v.tag = "num" /\ v.val # 0

EPSValue(s) ==
  IF s.EarningsPerShare.tag = "num" THEN s.EarningsPerShare.val
  ELSE s.NonConsolidatedEarningsPerShare.val

Eligible(s) == s.CurrentPeriodEndDate # 0 /\ s.CurrentPeriodEndDate <= Today

\* positions of the eligible annual statements with usable EPS
UsableFY ==
  {k \in DOMAIN statements :
     /\ Eligible(statements[k])
     /\ statements[k].TypeOfCurrentPeriod = "FY"
     /\ UsableEPS(statements[k])}

Newer(a, b) ==
  \/ a.CurrentPeriodEndDate > b.CurrentPeriodEndDate
  \/ /\ a.CurrentPeriodEndDate = b.CurrentPeriodEndDate
     /\ a.DisclosedDate > b.DisclosedDate

\* C1: when an eligible annual statement with usable EPS exists, the selected
\* statement is an annual statement with usable EPS than which no other such
\* statement has a later (period end, disclosure date).
C1_SelectsNewestUsableAnnual ==
  (pc \in {"ratios", "return", "finished"} /\ UsableFY # {}) =>
     /\ stmt # <<>>
     /\ \E k \in UsableFY :
          /\ stmt[1] = statements[k]
          /\ \A j \in UsableFY : ~Newer(statements[j], statements[k])

C1_Witness ==
  /\ pc = "return"
  /\ Len(statements) = 2
  /\ UsableFY = {1, 2}
  /\ statements[1].CurrentPeriodEndDate = statements[2].CurrentPeriodEndDate
  /\ statements[1].DisclosedDate < statements[2].DisclosedDate
  /\ stmt = <<statements[2]>>

\* C2: every statement that is selected or feeds a ratio has its period end
\* within [today - 3*365 days, today].
C2_UsedStatementsInRange ==
  \A s \in used \cup (IF Selected THEN {stmt[1]} ELSE {}) :
     /\ s.CurrentPeriodEndDate <= Today
     /\ s.CurrentPeriodEndDate >= Today - 3 * 365

\* the selected statement has no forecast EPS, the scan over the collection
\* meets a future-dated statement that has one, and the ratio stays absent
C2_Witness ==
  /\ pc = "return"
  /\ stmt # <<>>
  /\ result.PER.ok
  /\ stmt[1].ForecastEarningsPerShare = Blank
  /\ \E k \in DOMAIN statements :
       /\ statements[k].CurrentPeriodEndDate > Today
       /\ statements[k].ForecastEarningsPerShare = Num(50)
  /\ result.ForecastPER = None

NoEligibleAnnual ==
  \A k \in DOMAIN statements :
     Eligible(statements[k]) => statements[k].TypeOfCurrentPeriod # "FY"

\* C3: with no annual statement and a selected 1Q-3Q statement of usable EPS e,
\* the trailing PER is round(price / (4e), 2).
C3_QuarterlyPERIsAnnualized ==
  (/\ Returned
   /\ stmt # <<>>
   /\ NoEligibleAnnual
   /\ stmt[1].TypeOfCurrentPeriod \in {"1Q", "2Q", "3Q"}
   /\ UsableEPS(stmt[1]))
  => result.PER = Some(Round2(Frac(latest_price, 4 * EPSValue(stmt[1]))))

\* the direct book value per share is not a positive number
NoDirectBPS(s) ==
  LET v == IF s.BookValuePerShare.tag = "num" THEN s.BookValuePerShare
           ELSE s.NonConsolidatedBookValuePerShare
  IN ~(v.tag = "num" /\ v.val > 0)

FieldValue(a, b) == IF a.tag = "num" THEN a.val ELSE IF b.tag = "num" THEN b.val ELSE 0

ManualEquity(s) == FieldValue(s.Equity, s.NonConsolidatedEquity)

ManualShares(s) ==
  FieldValue(s.NumberOfIssuedAndOutstandingSharesAtTheEndOfFiscalYearIncludingTreasuryStock,
             s.AverageNumberOfShares)
  - FieldValue(s.NumberOfTreasuryStockAtTheEndOfFiscalYear, Blank)

\* price / (equity * unit / shares), for positive equity and shares
ImpliedPBR(s, unit) ==
  Frac(latest_price * Frac(ManualShares(s), ManualEquity(s)).n,
       unit * Frac(ManualShares(s), ManualEquity(s)).d)

Plausible(x) == 100 * x.n >= 5 * x.d /\ x.n <= 20 * x.d

Reconstructible(s) ==
  /\ ManualEquity(s) > 0
  /\ FieldValue(s.NumberOfIssuedAndOutstandingSharesAtTheEndOfFiscalYearIncludingTreasuryStock,
                s.AverageNumberOfShares) # 0
  /\ ManualShares(s) > 0

\* C4: a PBR from reconstructed BPS is the implied PBR of the thousands
\* hypothesis when that lies in [0.05, 20], else that of the same-unit
\* hypothesis when that lies in [0.05, 20], else absent; so it lies in the band.
C4_ReconstructedPBRInBand ==
  (Returned /\ stmt # <<>> /\ NoDirectBPS(stmt[1])) =>
     LET s == stmt[1]
     IN /\ result.PBR.ok => (result.PBR.val >= 5 /\ result.PBR.val <= 2000)
        /\ IF Reconstructible(s) /\ Plausible(ImpliedPBR(s, 1000))
           THEN result.PBR = Some(Round2(ImpliedPBR(s, 1000)))
           ELSE IF Reconstructible(s) /\ Plausible(ImpliedPBR(s, 1))
           THEN result.PBR = Some(Round2(ImpliedPBR(s, 1)))
           ELSE result.PBR = None

\* equity 1,000,000, shares 100,000, treasury 0, price 100: PBR 10.0
C4_Witness ==
  /\ pc = "return"
  /\ stmt # <<>>
  /\ NoDirectBPS(stmt[1])
  /\ stmt[1].Equity = Num(1000000)
  /\ stmt[1].NumberOfIssuedAndOutstandingSharesAtTheEndOfFiscalYearIncludingTreasuryStock
       = Num(100000)
  /\ stmt[1].NumberOfTreasuryStockAtTheEndOfFiscalYear = Blank
  /\ latest_price = 100
  /\ result.PBR = Some(1000)

ForecastValue(s) ==
  FieldValue(s.ForecastEarningsPerShare, s.ForecastNonConsolidatedEarningsPerShare)

\* C5: a ratio of a returned result is absent or non-negative, and a present
\* ratio is the price over a positive EPS, forecast EPS or BPS.
C5_RatiosFromPositiveFigures ==
  Returned =>
     /\ result.PER.ok =>
          /\ result.PER.val >= 0
          /\ stmt # <<>>
          /\ EPSValue(stmt[1]) > 0
          /\ result.PER.val = Round2(Frac(latest_price, EPSValue(stmt[1])))
     /\ result.ForecastPER.ok =>
          /\ result.ForecastPER.val >= 0
          /\ \E s \in used :
               /\ ForecastValue(s) > 0
               /\ result.ForecastPER.val = Round2(Frac(latest_price, ForecastValue(s)))
     /\ result.PBR.ok =>
          /\ result.PBR.val >= 0
          /\ stmt # <<>>
          /\ \/ /\ ~NoDirectBPS(stmt[1])
                /\ result.PBR.val =
                     Round2(Frac(latest_price,
                                 FieldValue(stmt[1].BookValuePerShare,
                                            stmt[1].NonConsolidatedBookValuePerShare)))
             \/ /\ NoDirectBPS(stmt[1])
                /\ ManualEquity(stmt[1]) > 0
                /\ ManualShares(stmt[1]) > 0

C5_Witness ==
  /\ pc = "return"
  /\ stmt # <<>>
  /\ stmt[1].EarningsPerShare = Num(0 - 5)
  /\ stmt[1].ForecastEarningsPerShare = Num(0 - 3)
  /\ stmt[1].BookValuePerShare = Num(0)
  /\ stmt[1].Equity = Num(0 - 1000)
  /\ result.PER = None
  /\ result.ForecastPER = None
  /\ result.PBR = None

SomeCallFailed(log) ==
  \E k \in DOMAIN log : log[k].raised \/ log[k].status_code # 200

\* C6: the run is never aborted by an error of one code; while it runs there is
\* one row per finished code, and it ends with one row per input code, in order.
C6_OneRowPerCode ==
  /\ pc # "aborted"
  /\ pc \notin {"auth", "auth_failed"} =>
       /\ \A k \in DOMAIN results : results[k].Code = Codes[k]
       /\ Len(results) = IF pc = "finished" THEN NumCodes ELSE i - 1

C6_Witness ==
  /\ pc = "finished"
  /\ Len(results) = NumCodes
  /\ results[1].LatestPrice = 0
  /\ \E k \in DOMAIN responses : responses[k].raised
  /\ SomeCallFailed(priceLog)

\* C7: when a statements call of the code failed, its three ratios are absent
\* and the price fields are as the price step left them.
C7_FailedFetchLeavesRatiosAbsent ==
  (pc = "return" /\ SomeCallFailed(responses)) =>
     /\ result.PER = None
     /\ result.ForecastPER = None
     /\ result.PBR = None
     /\ result.LatestPrice = latest_price

PriceStepOver == pc \notin {"auth", "auth_failed", "info", "price", "price_retry"}

\* C8 as stated: at most one price request per code, and the statements fetch
\* only after the price step.
C8_AtMostOnePriceRequest ==
  /\ Len(priceLog) <= 1
  /\ requests # <<>> => PriceStepOver

\* C8 amended: at most two price requests per code, the second one only after
\* a non-success status of the first (never after an exception, never after
\* the second), and the statements fetch only after the price step.
C8_AtMostOnePriceRetry ==
  /\ Len(priceLog) <= 2
  /\ (Len(priceLog) = 2 \/ pc = "price_retry") =>
        (~priceLog[1].raised /\ priceLog[1].status_code # 200)
  /\ requests # <<>> => (PriceStepOver /\ priceLog # <<>> /\ latest_price # 0)

C8_Witness ==
  /\ Len(priceLog) = 2
  /\ priceLog[2].status_code = 200
  /\ requests # <<>>

\* the statements of the successful replies, in the order of the replies
RECURSIVE PagesInOrder(_)
PagesInOrder(log) ==
  IF log = <<>> THEN <<>>
  ELSE (IF ~Head(log).raised /\ Head(log).status_code = 200
        THEN Head(log).statements ELSE <<>>) \o PagesInOrder(Tail(log))

FetchRunning == pc \in {"stmt_req", "stmt_resp"}

C9_Pagination ==
  /\ Len(requests) = Len(responses) + (IF pc = "stmt_resp" THEN 1 ELSE 0)
  /\ requests # <<>> => requests[1] = 0
  /\ \A k \in DOMAIN requests : k > 1 =>
        /\ requests[k] = responses[k - 1].pagination_key
        /\ requests[k] # 0
        /\ ~responses[k - 1].raised
        /\ responses[k - 1].status_code = 200
        /\ responses[k - 1].statements # <<>>
  /\ all_statements = PagesInOrder(responses)

\* C9: requests go out one at a time, each later one with the cursor of the
\* preceding reply, none after a reply with an empty cursor, an empty list or
\* a failure; the pages are accumulated in order; and the fetch ends.
C9_PaginationFollowsCursor ==
  /\ []C9_Pagination
  /\ (pc = "stmt_req") ~> ~FetchRunning

C9_Witness ==
  /\ pc = "filter"
  /\ Len(responses) = 2
  /\ requests = <<0, 2>>
  /\ Len(all_statements) = 2
  /\ all_statements[1] # all_statements[2]

\* C10: the selected statement never carries a fallback EPS, and an annual
\* statement selected without usable EPS gives no trailing PER.
C10_FallbackNeverAttached ==
  /\ stmt # <<>> =>
       /\ stmt[1].FallbackEarningsPerShare = Blank
       /\ stmt[1].FallbackEPSPeriod = 0
  /\ (Returned /\ stmt # <<>> /\ stmt[1].TypeOfCurrentPeriod = "FY"
        /\ ~UsableEPS(stmt[1])) => result.PER = None

C10_Witness ==
  /\ pc = "return"
  /\ Len(statements) = 2
  /\ \A k \in DOMAIN statements :
        statements[k].TypeOfCurrentPeriod = "FY" /\ ~UsableEPS(statements[k])
  /\ statements[1].CurrentPeriodEndDate < statements[2].CurrentPeriodEndDate
  /\ stmt = <<statements[2]>>
  /\ result.PER = None

====
